---- MODULE Spec2Model ----
(***************************************************************************)
(* A model of Unknown6656.CVGL.pixel_shader.PixelShader: the class-wide   *)
(* reference count, lock and GLFW window, the per-instance GPU objects    *)
(* and uniform binding table, and the image pipeline of apply().          *)
(*                                                                         *)
(*   Spec      threads interleaving the constructor, apply() and close()  *)
(*   SpecVars  one caller using the constructor, get_variable,            *)
(*             set_variable, apply and close on instances with declared   *)
(*             variables                                                  *)
(*   SpecFrame one caller setting, applying and closing a single instance *)
(*   SpecScope one caller using instances inside with statements         *)
(*   SpecImage one caller applying a shader to every image of a bounded   *)
(*             set of shapes and pixel values                             *)
(***************************************************************************)
EXTENDS Integers, Sequences, FiniteSets, TLC

VARIABLES
    instances,  \* PixelShader.__instances (pixel_shader.py:22)
    mutex,      \* holder of PixelShader.__mutex, NoThread when free (:23)
    window,     \* PixelShader.__window: None or a window handle (:24)
    created,    \* number of windows glfw.create_window has returned so far
    pc,         \* pc[t]: the position of thread t inside a method
    arg,        \* arg[t]: the instance the method of thread t runs on
    current,    \* current[t]: the window whose context is current on thread t
    life,       \* life[i]: lifecycle state of instance slot i
    gpu,        \* gpu[i]: the GPU objects instance i holds undeleted
    closes,     \* closes[i]: number of close() calls made on instance i
    variables,  \* variables[i]: self._variables, in insertion order (:199)
    body,       \* body[i]: the shader_code instance i was built from
    last,       \* the last completed call: operation, instance, outcome
    image,      \* the caller's array passed to the last apply()
    output,     \* what the last apply() returned or raised, or what the last
                \* constructor raised
    pushed,     \* the bindings the uniform loop of the last apply() went through
    draw,       \* the sizes the last apply() gave its render target, its size
                \* uniforms and its viewport
    source      \* the arguments of the constructor call, when the last call
                \* was one, and the fragment source it assembled
                \* (self._fragment_shader_code, :140)

classvars == <<instances, window, created>>
threadvars == <<mutex, pc, arg, current>>
instvars == <<life, gpu, closes, variables, body>>
callvars == <<last, image, output, pushed, draw, source>>

vars == <<instances, mutex, window, created, pc, arg, current, life, gpu, closes,
          variables, body, last, image, output, pushed, draw, source>>

----------------------------------------------------------------------------
(* Bounds *)

NumInsts == 2
MaxCloses == 2
MaxDim == 2

Threads == {"t1", "t2"}
Insts == 1..NumInsts
NoThread == "none"
None == 0

Max(a, b) == IF a >= b THEN a ELSE b

----------------------------------------------------------------------------
(* Host values and their coercion by set_variable.                         *)
(* A number is kept in halves (3 stands for 1.5), with the representation *)
(* it has: "py" a Python number, "i32" numpy.int32, "f32" numpy.float32. *)

TruncHalves(n) == IF n >= 0 THEN n \div 2 ELSE -((-n) \div 2)

\* numpy.int32(x) of one number: truncation toward zero.  The numbers of
\* this model are far inside the 32-bit range.
ToInt32(e) ==
    IF e[1] = "i32" THEN e ELSE <<"i32", TruncHalves(e[2])>>

\* numpy.float32(x) of one number.
ToFloat32(e) ==
    IF e[1] = "i32" THEN <<"f32", 2 * e[2]>> ELSE <<"f32", e[2]>>

NoneV == [k |-> "none", es |-> <<>>]
Num(n) == [k |-> "num", es |-> <<<<"py", n>>>>]
List(ns) == [k |-> "list", es |-> [j \in 1..Len(ns) |-> <<"py", ns[j]>>]]

\* [np.int32(x) for x in value] and numpy.int32 of a list.
AllInt32(es) == [j \in 1..Len(es) |-> ToInt32(es[j])]

\* [np.float32(x) for x in value] and numpy.float32 of a list.
AllFloat32(es) == [j \in 1..Len(es) |-> ToFloat32(es[j])]

----------------------------------------------------------------------------
(* shader_variable.py *)

ShaderVariableType ==
    {"BOOL", "INT", "INT_2", "INT_3", "INT_4",
     "FLOAT", "FLOAT_2", "FLOAT_3", "FLOAT_4"}

IntScalarTypes == {"BOOL", "INT"}
IntVectorTypes == {"INT_2", "INT_3", "INT_4"}
FloatVectorTypes == {"FLOAT_2", "FLOAT_3", "FLOAT_4"}

\* Number of components of a type (the enumeration's documentation).
Arity(type) ==
    CASE type \in {"BOOL", "INT", "FLOAT"} -> 1
      [] type \in {"INT_2", "FLOAT_2"} -> 2
      [] type \in {"INT_3", "FLOAT_3"} -> 3
      [] type \in {"INT_4", "FLOAT_4"} -> 4

ShaderVariable(name, type, default) ==
    [name |-> name, type |-> type, default_value |-> default]

----------------------------------------------------------------------------
(* The binding table self._variables: a dict in insertion order, modelled *)
(* as a sequence of [key, value].                                          *)

InitialBindings_Unset(decls) ==
    [j \in 1..Len(decls) |-> [key |-> decls[j], value |-> NoneV]]

RECURSIVE InitialBindings(_)
\* {var : var.default_value for var in variables}: a key met again keeps
\* its place.
InitialBindings(decls) ==
    IF decls = <<>> THEN <<>>
    ELSE LET n == Len(decls)
             front == InitialBindings(SubSeq(decls, 1, n - 1))
             d == decls[n]
         IN  IF \E j \in 1..Len(front) : front[j].key = d
               THEN front
               ELSE Append(front, [key |-> d, value |-> d.default_value])

\* The names of the keys of self._variables.
DeclaredNames(i) == {variables[i][j].key.name : j \in 1..Len(variables[i])}

\* What a caller passes as `variable`: a name or a ShaderVariable.
ByName(s) == [kind |-> "str", s |-> s, v |-> ShaderVariable(s, "BOOL", NoneV)]
ByVar(v) == [kind |-> "var", s |-> "", v |-> v]

KeyMatches_IgnoreCase(key, a) ==
    LET Lower(s) == IF s = "X" THEN "x" ELSE s
    IN  \/ a.kind = "var" /\ key = a.v
        \/ a.kind = "str" /\ Lower(key.name) = Lower(a.s)

\* key == variable or key.name == str(variable).  The dataclass __eq__
\* holds between two ShaderVariable of equal fields only; str() of a
\* ShaderVariable is its repr "<TYPE> <name>...", which is no identifier.
KeyMatches(key, a) ==
    \/ a.kind = "var" /\ key = a.v
    \/ a.kind = "str" /\ key.name = a.s

\* Index of the first key the loop returns on, 0 when it falls through.
Lookup(i, a) ==
    LET hits == {j \in 1..Len(variables[i]) : KeyMatches(variables[i][j].key, a)}
    IN  IF hits = {} THEN 0 ELSE CHOOSE j \in hits : \A h \in hits : j <= h

GetOutcome(i, a) ==
    LET j == Lookup(i, a)
    IN  IF j = 0 THEN [res |-> "UnknownVariable", value |-> NoneV]
        ELSE [res |-> "ok", value |-> variables[i][j].value]

Coerced_AsPassed(type, value) == [res |-> "ok", value |-> value]

\* The match statement of set_variable: what is stored, or the exception.
\* numpy.int32(v) and numpy.float32(v) turn a list into an array and raise
\* TypeError on None; iterating None or a number raises TypeError.
Coerced(type, value) ==
    CASE type \in IntScalarTypes ->
           IF value.k = "none" THEN [res |-> "TypeError", value |-> NoneV]
           ELSE [res |-> "ok",
                 value |-> [k |-> IF value.k = "num" THEN "num" ELSE "array",
                            es |-> AllInt32(value.es)]]
      [] type \in IntVectorTypes ->
           IF value.k \in {"none", "num"} THEN [res |-> "TypeError", value |-> NoneV]
           ELSE [res |-> "ok", value |-> [k |-> "list", es |-> AllInt32(value.es)]]
      [] type = "FLOAT" ->
           IF value.k = "none" THEN [res |-> "TypeError", value |-> NoneV]
           ELSE [res |-> "ok",
                 value |-> [k |-> IF value.k = "num" THEN "num" ELSE "array",
                            es |-> AllFloat32(value.es)]]
      [] type \in FloatVectorTypes ->
           IF value.k \in {"none", "num"} THEN [res |-> "TypeError", value |-> NoneV]
           ELSE [res |-> "ok", value |-> [k |-> "list", es |-> AllFloat32(value.es)]]

\* set_variable: the outcome and the binding table it leaves.
SetOutcome(i, a, value) ==
    LET j == Lookup(i, a)
    IN  IF j = 0 THEN [res |-> "UnknownVariable", table |-> variables[i]]
        ELSE LET c == Coerced(variables[i][j].key.type, value)
             IN  IF c.res # "ok" THEN [res |-> c.res, table |-> variables[i]]
                 ELSE [res |-> "ok",
                       table |-> [variables[i] EXCEPT ![j].value = c.value]]

\* The uniform dispatch of apply(): whether pushing binding b raises.
\* BOOL goes to glUniform1i and FLOAT to glUniform1f, which take one
\* number; a vector type indexes value[0..n-1]; INT matches no branch.
PushRaises(b) ==
    LET t == b.key.type
    IN  /\ b.value.k # "none"
        /\ \/ t \in {"BOOL", "FLOAT"} /\ b.value.k # "num"
           \/ /\ t \in IntVectorTypes \cup FloatVectorTypes
              /\ (b.value.k = "num" \/ Len(b.value.es) < Arity(t))

\* The branch of lines 296-311 a variable of the given type takes.  The
\* first test reads `type is ShaderVariableType.INT`, where `type` is the
\* builtin and never the enumeration member: INT takes no branch.
Setter(type) ==
    CASE type = "BOOL" -> "glUniform1i"
      [] type = "INT" -> "none"
      [] type = "INT_2" -> "glUniform2i"
      [] type = "INT_3" -> "glUniform3i"
      [] type = "INT_4" -> "glUniform4i"
      [] type = "FLOAT" -> "glUniform1f"
      [] type = "FLOAT_2" -> "glUniform2f"
      [] type = "FLOAT_3" -> "glUniform3f"
      [] type = "FLOAT_4" -> "glUniform4f"

\* One turn of the loop of lines 291-311 on binding b; found holds the
\* names glGetUniformLocation returns a location >= 0 for.
PushEntry(b, found) ==
    LET located == b.value.k # "none" /\ b.key.name \in found
    IN  [name |-> b.key.name, type |-> b.key.type, bound |-> b.value.k # "none",
         located |-> located,
         call |-> IF located THEN Setter(b.key.type) ELSE "none",
         raised |-> located /\ PushRaises(b)]

\* The turns the loop takes over a binding table: all of them, or those up
\* to the first that raises.
Pushes(table, found) ==
    LET bad == {j \in 1..Len(table) : PushEntry(table[j], found).raised}
        n == IF bad = {} THEN Len(table)
             ELSE CHOOSE j \in bad : \A h \in bad : j <= h
    IN  [j \in 1..n |-> PushEntry(table[j], found)]

----------------------------------------------------------------------------
(* Images: a numpy array as its shape and its elements in row-major order *)

Prod(shape) ==
    LET RECURSIVE P(_)
        P(k) == IF k = 0 THEN 1 ELSE shape[k] * P(k - 1)
    IN  P(Len(shape))

Image(shape, data) == [shape |-> shape, data |-> data]

NoImage == Image(<<>>, <<>>)

\* image.astype(np.uint8) of an integer element.
ToUint8(x) == x % 256

Repeat3_TwoChannels(x) == <<x, x, 0>>

\* np.repeat(..., 3, 2) of one single-channel pixel.
Repeat3(x) == <<x, x, x>>

SwapChannels_Identity(p) == p

\* cv2.COLOR_BGR2RGB and cv2.COLOR_RGB2BGR of one pixel.
SwapChannels(p) == <<p[3], p[2], p[1]>>

AllUint8(data) == [k \in 1..Len(data) |-> ToUint8(data[k])]

Repeated(data) == [q \in 1..Len(data) |-> Repeat3(data[q])]

Swapped(px) == [q \in 1..Len(px) |-> SwapChannels(px[q])]

\* The pixels of an array of shape (h, w, 3), row-major.
Pixels3(data, n) ==
    [q \in 1..n |-> <<data[3 * q - 2], data[3 * q - 1], data[3 * q]>>]

Flatten3(px) ==
    [k \in 1..(3 * Len(px)) |-> px[((k - 1) \div 3) + 1][((k - 1) % 3) + 1]]

\* len(image) == 0: the length of the first dimension.
IsEmptyCheck(img) == img.shape[1] = 0

Raised(res, stage) ==
    [res |-> res, stage |-> stage, shape |-> <<>>, data |-> <<>>]

ChannelsRejected_FourAllowed(c) == c # 1 /\ c # 3 /\ c # 4

\* Lines 269-272: a third dimension that is neither 1 nor 3 is refused.
ChannelsRejected(c) == c # 1 /\ c # 3

Prepare_DimensionsFirst(img) ==
    LET nd == Len(img.shape)
    IN  IF ~(1 < nd /\ nd < 4) THEN Raised("InvalidDimensionality", "validate")
        ELSE IF nd = 3 /\ ChannelsRejected(img.shape[3])
          THEN Raised("UnsupportedChannelCount", "validate")
        ELSE IF IsEmptyCheck(img) THEN Raised("EmptyImage", "validate")
        ELSE IF img.shape[1] * img.shape[2] = 0 THEN Raised("CvError", "convert")
        ELSE [res |-> "ok", stage |-> "convert", height |-> img.shape[1],
              width |-> img.shape[2],
              px |-> Swapped(IF nd = 2 \/ img.shape[3] = 1
                               THEN Repeated(AllUint8(img.data))
                               ELSE Pixels3(AllUint8(img.data),
                                            img.shape[1] * img.shape[2]))]

\* Lines 260-276: validation, broadcast to three channels and the channel
\* swap.  On success px is what glTexImage2D uploads.
\* cv2.cvtColor raises cv2.error on an array without elements.
Prepare(img) ==
    LET nd == Len(img.shape)
    IN  IF IsEmptyCheck(img) THEN Raised("EmptyImage", "validate")
        ELSE IF ~(1 < nd /\ nd < 4) THEN Raised("InvalidDimensionality", "validate")
        ELSE LET h == img.shape[1]
                 w == img.shape[2]
                 u8 == AllUint8(img.data)
             IN  IF nd = 3 /\ ChannelsRejected(img.shape[3])
                   THEN Raised("UnsupportedChannelCount", "validate")
                 ELSE IF h * w = 0 THEN Raised("CvError", "convert")
                 ELSE LET bgr == IF nd = 2 \/ img.shape[3] = 1
                                   THEN Repeated(u8)
                                   ELSE Pixels3(u8, h * w)
                      IN  [res |-> "ok", stage |-> "convert", height |-> h,
                           width |-> w, px |-> Swapped(bgr)]

\* The fragment program on one texel: out_color = texture(image, coords),
\* the caller's body, the clamp.  Channels are kept in 8-bit units.
Bodies == {"", "out_color = vec4(1,0,0,1);", "out_color.gb = vec2(0);",
           "out_color.rgb = 1 - out_color.rgb;"}

Fragment(code, p) ==
    CASE code = "" -> p
      [] code = "out_color = vec4(1,0,0,1);" -> <<255, 0, 0>>
      [] code = "out_color.gb = vec2(0);" -> <<p[1], 0, 0>>
      [] code = "out_color.rgb = 1 - out_color.rgb;" ->
           <<255 - p[1], 255 - p[2], 255 - p[3]>>

\* glDrawElements: the fragment program runs once on every texel.
Drawn(code, px) == [q \in 1..Len(px) |-> Fragment(code, px[q])]

Rendered_FlippedRows(code, prep) ==
    LET h == prep.height
        w == prep.width
        d == Drawn(code, prep.px)
        flipped == [q \in 1..Len(d) |->
                       d[(h - 1 - ((q - 1) \div w)) * w + ((q - 1) % w) + 1]]
    IN  [res |-> "ok", stage |-> "locked", shape |-> <<h, w, 3>>,
         data |-> Flatten3(Swapped(flipped))]

\* Lines 280-341 on live objects: the draw writes Fragment of every texel,
\* glReadPixels reads it into image_out, cvtColor swaps the channels back.
Rendered(code, prep) ==
    [res |-> "ok", stage |-> "locked", shape |-> <<prep.height, prep.width, 3>>,
     data |-> Flatten3(Swapped(Drawn(code, prep.px)))]

----------------------------------------------------------------------------
(* GPU objects of one instance *)

GpuAll == {"vertex_shader", "fragment_shader", "program", "buffers",
           "textures", "framebuffer"}

\* Whether the GL calls of a method on instance i act on live objects of a
\* live context.  When they do not, the outcome is the driver's: PyOpenGL
\* raises GLError, or the calls pass silently.
GpuValid(i) == window # None /\ gpu[i] = GpuAll

GlOutcomes(i) == IF GpuValid(i) THEN {"ok"} ELSE {"ok", "glerror"}

\* glfw.make_context_current(w) on thread t (lines 131 and 280).
MakeCurrent(t, w) == [current EXCEPT ![t] = w]

\* glfw.destroy_window(w) (line 217): the context of w is gone, on
\* whatever thread it was current.
DestroyCurrent(w) == [t \in Threads |-> IF current[t] = w THEN None ELSE current[t]]

\* Whether the GL calls of thread t reach the shared context.
HasContext(t) == window # None /\ current[t] = window

\* The outcomes of GL calls thread t makes on the objects of instance i
\* without making a context current first (lines 205-210).
ThreadGlOutcomes(t, i) == IF HasContext(t) THEN GlOutcomes(i) ELSE {"ok", "glerror"}

----------------------------------------------------------------------------
(* The lock *)

LockFree_NoGuard(m) == TRUE

\* Lock.acquire() returns only when no thread holds the lock.
LockFree(m) == m = NoThread

Acquire(t, from, to) ==
    /\ pc[t] = from
    /\ LockFree(mutex)
    /\ mutex' = t
    /\ pc' = [pc EXCEPT ![t] = to]
    /\ arg' = arg
    /\ current' = current

Release_KeepsLock(t) ==
    /\ mutex' = mutex
    /\ pc' = [pc EXCEPT ![t] = "idle"]
    /\ arg' = [arg EXCEPT ![t] = 1]

\* The finally clause and the return to the caller.
Release(t) ==
    /\ mutex' = NoThread
    /\ pc' = [pc EXCEPT ![t] = "idle"]
    /\ arg' = [arg EXCEPT ![t] = 1]

LockedPcs == {"init_cs", "apply_cs", "close_cs"}

----------------------------------------------------------------------------
(* PixelShader.__init__, lines 124-199 *)

\* What the platform and the GLSL compiler make of a construction: the
\* window is not created; the fragment stage does not compile; the program
\* does not link and gls.compileProgram returns it ("link_fail") or raises
\* ("link_raise").
CtorOutcomes == {"ok", "surface_fail", "compile_fail", "link_fail", "link_raise"}

IncrementedCount(n) == Max(n + 1, 1)

NeedsWindow(n, w) == n <= 1 \/ w = None

\* The objects a constructor ending with outcome o leaves allocated: the
\* fragment shader is deleted on a compile error (line 152), the program on
\* a link error seen at line 157 (line 159); an exception out of
\* gls.compileProgram leaves line 155 with nothing deleted.
CtorObjects(o) ==
    CASE o = "ok" -> GpuAll
      [] o = "surface_fail" -> {}
      [] o = "compile_fail" -> {"vertex_shader"}
      [] o = "link_fail" -> {"vertex_shader", "fragment_shader"}
      [] o = "link_raise" -> {"vertex_shader", "fragment_shader", "program"}

\* The exceptions a constructor ending with outcome o may leave with.  The
\* constructor raises at lines 153 and 160 only, with the compiler's and
\* the linker's log; it does not test what glfw.create_window returned, so
\* without a window it fails where the GL calls fail: PyOpenGL raises, or
\* the calls pass and line 150 reads no compile status.
CtorRaises(o) ==
    CASE o = "ok" -> {"none"}
      [] o = "surface_fail" -> {"GLError", "CompileError"}
      [] o = "compile_fail" -> {"CompileError"}
      [] o = "link_fail" -> {"LinkError"}
      [] o = "link_raise" -> {"RuntimeError"}

\* The locked section of the constructor of instance i, built from the
\* declarations decls and the body code, ending with outcome o.
CtorEffect(i, o, decls, code) ==
    LET n == IncrementedCount(instances)
        make == NeedsWindow(n, window)
    IN  /\ o = "surface_fail" => make
        /\ instances' = n
        /\ IF make
             THEN IF o = "surface_fail"
                    THEN window' = None /\ created' = created
                    ELSE window' = created + 1 /\ created' = created + 1
             ELSE window' = window /\ created' = created
        /\ gpu' = [gpu EXCEPT ![i] = CtorObjects(o)]
        /\ life' = [life EXCEPT ![i] = IF o = "ok" THEN "Ready" ELSE "Failed"]
        /\ variables' = [variables EXCEPT
                           ![i] = IF o = "ok" THEN InitialBindings(decls) ELSE <<>>]
        /\ body' = [body EXCEPT ![i] = IF o = "ok" THEN code ELSE "none"]
        /\ closes' = closes

----------------------------------------------------------------------------
(* PixelShader.close *)

ShouldDestroy_OffByOne(n) == n < 2

ShouldDestroy(n) == n < 1

\* Lines 205-210.
Deleted(i) == [gpu EXCEPT ![i] = {}]

\* Lines 214-219, g being the GPU objects when the lock is taken.
\* Destroying the window destroys its context and every object in it.
CloseLocked(g) ==
    LET n == instances - 1
    IN  /\ instances' = n
        /\ IF ShouldDestroy(n)
             THEN window' = None /\ gpu' = [j \in Insts |-> {}]
             ELSE window' = window /\ gpu' = g
        /\ created' = created

----------------------------------------------------------------------------
(* PixelShader.apply *)

\* Line 257.
DestroyedCheck(n) == n < 1

CallerArray_ConvertedInPlace(img) == Image(img.shape, AllUint8(img.data))

\* The caller's array after apply(img).  Lines 264-274 bind the local name
\* `image` to the new arrays astype, np.repeat and cv2.cvtColor return, and
\* glTexImage2D reads its argument: the array passed in is never written.
CallerArray(img) == img

\* The turns of the uniform loop a call of apply() takes: none when the
\* call ends before line 291.
ApplyPushes(i, img, glo, found) ==
    IF DestroyedCheck(instances) \/ Prepare(img).res # "ok" \/ glo = "glerror"
      THEN <<>>
      ELSE Pushes(variables[i], found)

\* No draw was made.
NoDraw == [width |-> 0, height |-> 0, target |-> <<0, 0>>, viewport |-> <<0, 0>>]

DrawOf_Transposed(prep) ==
    [width |-> prep.height, height |-> prep.width,
     target |-> <<prep.height, prep.width>>,
     viewport |-> <<prep.height, prep.width>>]

\* Lines 317-318, 324 and 331 with width and height of lines 275-276: the
\* values of the uniforms width and height, the storage glTexImage2D gives
\* the output texture, anew on every call, and the viewport.
DrawOf(prep) ==
    [width |-> prep.width, height |-> prep.height,
     target |-> <<prep.width, prep.height>>,
     viewport |-> <<prep.width, prep.height>>]

\* The sizes a call of apply() draws with: none when the call ends before
\* line 317.
ApplyDraw(i, img, glo, found) ==
    IF DestroyedCheck(instances) \/ Prepare(img).res # "ok" \/ glo = "glerror"
      THEN NoDraw
    ELSE IF \E j \in 1..Len(variables[i]) : PushEntry(variables[i][j], found).raised
      THEN NoDraw
    ELSE DrawOf(Prepare(img))

ApplyOutcome(i, img, glo, found) ==
    IF DestroyedCheck(instances) THEN Raised("UseAfterClose", "check")
    ELSE LET prep == Prepare(img)
         IN  IF prep.res # "ok" THEN Raised(prep.res, prep.stage)
             ELSE IF glo = "glerror" THEN Raised("GLError", "locked")
             ELSE IF \E j \in 1..Len(variables[i]) :
                        PushEntry(variables[i][j], found).raised
               THEN Raised("PushError", "locked")
             ELSE IF GpuValid(i) THEN Rendered(body[i], prep)
             ELSE [res |-> "ok_undefined", stage |-> "locked",
                   shape |-> <<prep.height, prep.width, 3>>, data |-> <<>>]

----------------------------------------------------------------------------
(* The methods as steps of a thread *)

\* A valid image, one of elements beyond 8 bits, an empty one and one of
\* four channels.
ThreadImages ==
    {Image(<<1, 1>>, <<7>>), Image(<<1, 1>>, <<300>>), Image(<<0>>, <<>>),
     Image(<<1, 1, 4>>, <<0, 0, 0, 0>>)}

CtorCall(t, i) ==
    /\ pc[t] = "idle"
    /\ life[i] = "Uninitialized"
    /\ life' = [life EXCEPT ![i] = "Constructing"]
    /\ pc' = [pc EXCEPT ![t] = "init_wait"]
    /\ arg' = [arg EXCEPT ![t] = i]
    /\ UNCHANGED <<classvars, mutex, current, gpu, closes, variables, body, callvars>>

CtorAcquire(t) ==
    /\ Acquire(t, "init_wait", "init_cs")
    /\ UNCHANGED <<classvars, instvars, callvars>>

CtorBody(t, o) ==
    /\ pc[t] = "init_cs"
    /\ CtorEffect(arg[t], o, <<>>, "")
    /\ current' = MakeCurrent(t, window')
    /\ Release(t)
    /\ UNCHANGED callvars

CloseCall(t, i) ==
    /\ pc[t] = "idle"
    /\ life[i] \in {"Ready", "Closed"}
    /\ closes[i] < MaxCloses
    /\ life' = [life EXCEPT ![i] = "Closed"]
    /\ closes' = [closes EXCEPT ![i] = @ + 1]
    /\ pc' = [pc EXCEPT ![t] = "close_gpu"]
    /\ arg' = [arg EXCEPT ![t] = i]
    /\ UNCHANGED <<classvars, mutex, current, gpu, variables, body, callvars>>

\* Lines 205-210: the deletions, made before the lock is taken and on
\* whatever context is current on the thread; without the shared context
\* they delete nothing of it.  A GLError leaves close() with nothing
\* deleted and nothing counted down: an instance whose only close() ended
\* so is as it was before the call.
CloseDelete(t, o) ==
    /\ pc[t] = "close_gpu"
    /\ o \in ThreadGlOutcomes(t, arg[t])
    /\ IF o = "ok"
         THEN /\ gpu' = IF HasContext(t) THEN Deleted(arg[t]) ELSE gpu
              /\ pc' = [pc EXCEPT ![t] = "close_wait"]
              /\ arg' = arg
              /\ life' = life
         ELSE /\ gpu' = gpu
              /\ pc' = [pc EXCEPT ![t] = "idle"]
              /\ arg' = [arg EXCEPT ![t] = 1]
              /\ life' = [life EXCEPT ![arg[t]] =
                             IF closes[arg[t]] = 1 THEN "Ready" ELSE @]
    /\ UNCHANGED <<classvars, mutex, current, closes, variables, body, callvars>>

CloseAcquire(t) ==
    /\ Acquire(t, "close_wait", "close_cs")
    /\ UNCHANGED <<classvars, instvars, callvars>>

CloseBody(t) ==
    /\ pc[t] = "close_cs"
    /\ CloseLocked(gpu)
    /\ current' = IF ShouldDestroy(instances - 1) THEN DestroyCurrent(window)
                  ELSE current
    /\ Release(t)
    /\ UNCHANGED <<life, closes, variables, body, callvars>>

\* Lines 257-276, before the lock: an exception returns to the caller.
ApplyCall(t, i, img) ==
    /\ pc[t] = "idle"
    /\ life[i] \in {"Ready", "Closed"}
    /\ IF ApplyOutcome(i, img, "ok", {}).stage = "locked"
         THEN /\ pc' = [pc EXCEPT ![t] = "apply_wait"]
              /\ arg' = [arg EXCEPT ![t] = i]
         ELSE UNCHANGED <<pc, arg>>
    /\ UNCHANGED <<classvars, mutex, current, instvars, callvars>>

ApplyAcquire(t) ==
    /\ Acquire(t, "apply_wait", "apply_cs")
    /\ UNCHANGED <<classvars, instvars, callvars>>

\* Lines 280-343.
ApplyGpu(t, o) ==
    /\ pc[t] = "apply_cs"
    /\ o \in GlOutcomes(arg[t])
    /\ current' = MakeCurrent(t, window)
    /\ Release(t)
    /\ UNCHANGED <<classvars, instvars, callvars>>

----------------------------------------------------------------------------
(* The fragment source: the template and its three placeholders *)

\* A line of source text, and a uniform declaration with its location.
Text(s) == [text |-> s, num |-> 0, glsl |-> "", name |-> ""]
Uniform(loc, glsl, name) == [text |-> "uniform", num |-> loc, glsl |-> glsl, name |-> name]

\* The line f'#line {i}' of line 136.
LineDirective(n) == [text |-> "#line", num |-> n, glsl |-> "", name |-> ""]

\* Lines 25-27.
VAR_CODE == "%__CODE__%"
VAR_UNIFORMS == "%__UNIFORMS__%"
VAR_ADD_FUNCTIONS == "%__FUNCTIONS__%"

MainLine == Text("void main() {")
SampleLine == Text("out_color = texture(image, coords);")
ClampLine == Text("out_color = clamp(out_color, 0, 1);")

\* PixelShader.__FRAGMENT_SHADER, lines 39-96, line by line; each built-in
\* function is one entry.
FRAGMENT_SHADER ==
    <<Text("#version 450"),
      Text("in vec2 coords;"),
      Text("layout (location = 0) out vec4 out_color;"),
      Uniform(1, "int", "width"),
      Uniform(2, "int", "height"),
      Text(VAR_UNIFORMS),
      Text("layout (binding = 0) uniform sampler2D image;"),
      Text("const float TAU = 6.28318530718;"),
      Text("vec4 blur(const vec2 coords, const float r, const float q)"),
      Text("vec3 rgb2hsv(const vec3 c)"),
      Text("vec3 hsv2rgb(const vec3 c)"),
      Text("float ciegray(const vec3 c)"),
      Text(VAR_ADD_FUNCTIONS),
      MainLine,
      SampleLine,
      Text(VAR_CODE),
      ClampLine,
      Text("}")>>

\* _FRAGMENT_SHADER of the module CVGLPixelShader.py, lines 29-47.
LEGACY_FRAGMENT_SHADER ==
    <<Text("#version 450"),
      Text("in vec2 coords;"),
      Text("layout (location = 0) out vec4 out_color;"),
      Uniform(1, "int", "width"),
      Uniform(2, "int", "height"),
      Text(VAR_UNIFORMS),
      Text("layout (binding = 0) uniform sampler2D image;"),
      Text(VAR_ADD_FUNCTIONS),
      MainLine,
      Text("vec2 scales = vec2(width, height) * 0.2;"),
      SampleLine,
      Text(VAR_CODE),
      Text("}")>>

\* ShaderVariableType.glsl_type, shader_variable.py lines 42-54.
GlslType(type) ==
    CASE type = "BOOL" -> "bool"
      [] type = "INT" -> "int"
      [] type = "INT_2" -> "ivec2"
      [] type = "INT_3" -> "ivec3"
      [] type = "INT_4" -> "ivec4"
      [] type = "FLOAT" -> "float"
      [] type = "FLOAT_2" -> "vec2"
      [] type = "FLOAT_3" -> "vec3"
      [] type = "FLOAT_4" -> "vec4"

\* Line 133: one line per entry of `variables`, entry i (from 0) at
\* location i + 3.
UniformDeclarations(decls) ==
    [j \in 1..Len(decls) |->
        Uniform((j - 1) + 3, GlslType(decls[j].type), decls[j].name)]

TwoStatements == "out_color.gb = vec2(0);\nout_color.r = 1;"

\* str.splitlines() of the strings the callers here pass.
Lines(s) ==
    CASE s = "" -> <<>>
      [] s = TwoStatements ->
           <<Text("out_color.gb = vec2(0);"), Text("out_color.r = 1;")>>
      [] OTHER -> <<Text(s)>>

\* Lines 135-136: every line of the body gets the directive of its number
\* in front, counted from 0.
Numbered(lines) ==
    [k \in 1..(2 * Len(lines)) |->
        IF k % 2 = 1 THEN LineDirective((k - 1) \div 2) ELSE lines[k \div 2]]

RECURSIVE Replace(_, _, _)
\* str.replace(marker, ins) on a text whose markers stand on lines of their
\* own: every occurrence of the marker, wherever it has come from, gives
\* way to the lines ins.
Replace(src, marker, ins) ==
    IF src = <<>> THEN <<>>
    ELSE (IF Head(src) = Text(marker) THEN ins ELSE <<Head(src)>>)
            \o Replace(Tail(src), marker, ins)

\* Lines 140-142: the body first, then the functions, then the uniforms.
Assemble(template, code, functions, uniforms) ==
    Replace(Replace(Replace(template, VAR_CODE, code),
                    VAR_ADD_FUNCTIONS, functions),
            VAR_UNIFORMS, uniforms)

\* self._fragment_shader_code of line 140.
FragmentSource(code, functions, decls) ==
    Assemble(FRAGMENT_SHADER, Numbered(Lines(code)), Lines(functions),
             UniformDeclarations(decls))

\* fragment_shader_code of CVGLPixelShader.py, lines 159-162: the same
\* replacements on the other template, the body as it is passed.
LegacyFragmentSource(code, functions, decls) ==
    Assemble(LEGACY_FRAGMENT_SHADER, Lines(code), Lines(functions),
             UniformDeclarations(decls))

NoSource == [module |-> "none", code |-> "", functions |-> "", decls |-> <<>>,
             text |-> <<>>]

Assembled(module, code, functions, decls, text) ==
    [module |-> module, code |-> code, functions |-> functions, decls |-> decls,
     text |-> text]

----------------------------------------------------------------------------
(* The methods as whole calls of one caller *)

Call(op, i, res) == [op |-> op, inst |-> i, res |-> res]

NoOutput == Raised("none", "none")

\* A call other than apply() leaves no image and no output to look at, and
\* a call other than a constructor no source.
NoImages ==
    /\ image' = NoImage /\ output' = NoOutput /\ pushed' = <<>>
    /\ draw' = NoDraw
    /\ source' = NoSource

\* PixelShader(code, functions, decls).  A constructor that meets a GLError
\* at line 138 leaves before line 140 and assembles nothing.
Construct(i, o, decls, code, functions) ==
    /\ life[i] = "Uninitialized"
    /\ LockFree(mutex)
    /\ CtorEffect(i, o, decls, code)
    /\ last' = Call("init", i, o)
    /\ \E e \in CtorRaises(o) :
          /\ output' = IF e = "none" THEN NoOutput ELSE Raised(e, "init")
          /\ source' = IF e = "GLError" THEN NoSource
                        ELSE Assembled("CVGL.pixel_shader", code, functions, decls,
                                       FragmentSource(code, functions, decls))
    /\ image' = NoImage
    /\ pushed' = <<>>
    /\ draw' = NoDraw
    /\ UNCHANGED threadvars

\* PixelShader(code, variables = decls): additional_functions is ''.
SeqCtor(i, o, decls, code) == Construct(i, o, decls, code, "")

\* PixelShader(code, functions, decls) of the module CVGLPixelShader.py,
\* lines 159-162.  That class has a count, a lock and a window of its own,
\* which are not part of this state; the step records the source the call
\* assembles.
LegacyConstruct(decls, code, functions) ==
    /\ last' = Call("legacy_init", 1, "ok")
    /\ source' = Assembled("CVGLPixelShader", code, functions, decls,
                        LegacyFragmentSource(code, functions, decls))
    /\ image' = NoImage /\ output' = NoOutput /\ pushed' = <<>> /\ draw' = NoDraw
    /\ UNCHANGED <<classvars, threadvars, instvars>>

\* Lines 205-221 as one step: a GLError of the deletions leaves close()
\* before the lock is taken.
CloseEffect(i, o) ==
    /\ life[i] \in {"Ready", "Closed"}
    /\ closes[i] < MaxCloses
    /\ o \in GlOutcomes(i)
    /\ life' = [life EXCEPT ![i] = "Closed"]
    /\ closes' = [closes EXCEPT ![i] = @ + 1]
    /\ IF o = "ok"
         THEN LockFree(mutex) /\ CloseLocked(Deleted(i))
         ELSE UNCHANGED <<classvars, gpu>>
    /\ UNCHANGED <<variables, body>>

SeqClose(i, o) ==
    /\ CloseEffect(i, o)
    /\ last' = Call("close", i, o)
    /\ NoImages
    /\ UNCHANGED threadvars

SeqGet(i, a) ==
    /\ life[i] \in {"Ready", "Closed"}
    /\ last' = Call("get", i, GetOutcome(i, a).res)
    /\ NoImages
    /\ UNCHANGED <<classvars, threadvars, instvars>>

SeqSet(i, a, value) ==
    /\ life[i] \in {"Ready", "Closed"}
    /\ variables' = [variables EXCEPT ![i] = SetOutcome(i, a, value).table]
    /\ last' = Call("set", i, SetOutcome(i, a, value).res)
    /\ NoImages
    /\ UNCHANGED <<classvars, threadvars, life, gpu, closes, body>>

\* found: the declared names the linked program has a location for.
SeqApply(i, img, o, found) ==
    /\ life[i] \in {"Ready", "Closed"}
    /\ o \in GlOutcomes(i)
    /\ found \subseteq DeclaredNames(i)
    /\ LockFree(mutex)
    /\ image' = CallerArray(img)
    /\ output' = ApplyOutcome(i, img, o, found)
    /\ pushed' = ApplyPushes(i, img, o, found)
    /\ draw' = ApplyDraw(i, img, o, found)
    /\ source' = NoSource
    /\ last' = Call("apply", i, ApplyOutcome(i, img, o, found).res)
    /\ UNCHANGED <<classvars, threadvars, instvars>>

----------------------------------------------------------------------------
(* The with statement on an instance: __enter__ and __exit__ *)

\* The thread that runs the with statement.
Caller == "t1"

\* The exception the block is left with, "none" when it ends normally: a
\* call that raises inside the block ends the block.
BlockException == IF last.res \in {"ok", "ok_undefined"} THEN "none" ELSE last.res

\* Line 345: __enter__ returns the instance, and the block starts.
WithEnter(i) ==
    /\ pc[Caller] = "idle"
    /\ life[i] = "Ready"
    /\ pc' = [pc EXCEPT ![Caller] = "with_block"]
    /\ arg' = [arg EXCEPT ![Caller] = i]
    /\ last' = Call("enter", i, "ok")
    /\ NoImages
    /\ UNCHANGED <<classvars, mutex, current, instvars>>

\* A call made inside the block, which goes on while no call has raised.
InBlock == pc[Caller] = "with_block" /\ BlockException = "none"

ExitCloses_OnlyOnSuccess(exc) == exc = "none"

\* Line 347: __exit__ calls self.close() without looking at the exception
\* it is given.
ExitCloses(exc) == TRUE

\* Line 347, at the end of the block or on the exception that leaves it.
\* __exit__ returns None: the exception of the block goes on to the caller,
\* unless close() raises one of its own.
WithExit(o) ==
    /\ pc[Caller] = "with_block"
    /\ IF ExitCloses(BlockException)
         THEN /\ CloseEffect(arg[Caller], o)
              /\ last' = Call("exit", arg[Caller],
                              IF o = "glerror" THEN "GLError" ELSE BlockException)
         ELSE /\ last' = Call("exit", arg[Caller], BlockException)
              /\ UNCHANGED <<classvars, instvars>>
    /\ NoImages
    /\ pc' = [pc EXCEPT ![Caller] = "idle"]
    /\ arg' = [arg EXCEPT ![Caller] = 1]
    /\ UNCHANGED <<mutex, current>>

----------------------------------------------------------------------------
(* apply_shader, lines 372-384, on an instance of PixelShader *)

\* The call that has just returned inside apply_shader left no exception.
Returned == last.res \in {"ok", "ok_undefined"}

\* apply_shader(shader, image, **kwargs) is entered with a shader that is
\* neither the class PixelShader nor another type (lines 373-376).
ApplyShaderCall(i) ==
    /\ pc[Caller] = "idle"
    /\ life[i] = "Ready"
    /\ pc' = [pc EXCEPT ![Caller] = "apply_shader"]
    /\ arg' = [arg EXCEPT ![Caller] = i]
    /\ last' = Call("apply_shader_call", i, "ok")
    /\ NoImages
    /\ UNCHANGED <<classvars, mutex, current, instvars>>

\* Lines 378-379: shader[key] = kwargs[key] for one more keyword.
ApplyShaderSet(n, value) ==
    /\ pc[Caller] = "apply_shader"
    /\ last.op \in {"apply_shader_call", "set"} /\ Returned
    /\ SeqSet(arg[Caller], ByName(n), value)

\* Line 381: image = shader(image), after the last keyword.
ApplyShaderApply(img, o, found) ==
    /\ pc[Caller] = "apply_shader"
    /\ last.op \in {"apply_shader_call", "set"} /\ Returned
    /\ SeqApply(arg[Caller], img, o, found)

\* Lines 382-384: shader.close() and the return, reached when the image
\* has been applied.
ApplyShaderClose(o) ==
    /\ pc[Caller] = "apply_shader"
    /\ last.op = "apply" /\ Returned
    /\ CloseEffect(arg[Caller], o)
    /\ last' = Call("apply_shader_exit", arg[Caller],
                    IF o = "glerror" THEN "GLError" ELSE "ok")
    /\ NoImages
    /\ pc' = [pc EXCEPT ![Caller] = "idle"]
    /\ arg' = [arg EXCEPT ![Caller] = 1]
    /\ UNCHANGED <<mutex, current>>

\* An exception of line 379 or of line 381 leaves apply_shader: nothing
\* catches it and no statement follows it.
ApplyShaderRaise ==
    /\ pc[Caller] = "apply_shader"
    /\ last.op \in {"set", "apply"} /\ ~Returned
    /\ last' = Call("apply_shader_exit", arg[Caller], last.res)
    /\ NoImages
    /\ pc' = [pc EXCEPT ![Caller] = "idle"]
    /\ arg' = [arg EXCEPT ![Caller] = 1]
    /\ UNCHANGED <<classvars, mutex, current, instvars>>

----------------------------------------------------------------------------
(* shader_generator.py: the classes of _generate_shader_class *)

\* Lines 11-15 of the generated __init__, called without arguments: every
\* variable is set by name to its default, written into the signature as
\* text, in the order of the list; the first set_variable that raises ends
\* the constructor.  The names of the list differ (a name met twice in a
\* signature is a SyntaxError), so the j-th assignment finds the j-th key.
DefaultsSet(decls) ==
    LET c(j) == Coerced(decls[j].type, decls[j].default_value)
        bad == {j \in 1..Len(decls) : c(j).res # "ok"}
        stop == IF bad = {} THEN Len(decls) + 1
                ELSE CHOOSE j \in bad : \A h \in bad : j <= h
    IN  [res |-> IF bad = {} THEN "ok" ELSE c(stop).res,
         table |-> [j \in 1..Len(decls) |->
                      [key |-> decls[j],
                       value |-> IF j < stop THEN c(j).value
                                 ELSE decls[j].default_value]]]

\* The result of a call on a generated class: the attribute it went
\* through and the value passed or returned.
Access(op, i, res, name, value) ==
    [op |-> op, inst |-> i, res |-> res, name |-> name, value |-> value]

\* T = _generate_shader_class(code, '', decls); T(): line 9 builds the
\* PixelShader, whose constructor succeeds here, and lines 14-15 set the
\* defaults.  The caller holds the object when __init__ has returned.
GeneratedInit(i, decls, code) ==
    LET n == IncrementedCount(instances)
        make == NeedsWindow(n, window)
        set == DefaultsSet(decls)
    IN  /\ pc[Caller] \in {"idle", "generated"}
        /\ life[i] = "Uninitialized"
        /\ LockFree(mutex)
        /\ instances' = n
        /\ IF make THEN window' = created + 1 /\ created' = created + 1
                   ELSE window' = window /\ created' = created
        /\ gpu' = [gpu EXCEPT ![i] = CtorObjects("ok")]
        /\ life' = [life EXCEPT ![i] = "Ready"]
        /\ variables' = [variables EXCEPT ![i] = set.table]
        /\ body' = [body EXCEPT ![i] = code]
        /\ last' = Access("generated_init", i, set.res, "", NoneV)
        /\ pc' = [pc EXCEPT ![Caller] =
                      IF set.res = "ok" THEN "generated" ELSE "idle"]
        /\ arg' = [arg EXCEPT ![Caller] = IF set.res = "ok" THEN i ELSE 1]
        /\ NoImages
        /\ UNCHANGED <<mutex, current, closes>>

\* Lines 44-45: the two lambdas of every property read the loop variable
\* `var` of the enclosing function when they are called, which is after
\* the loop has ended: the last variable of the list.
LoopVar(i) == variables[i][Len(variables[i])].key

\* obj.<name>, the getter of line 45: _get(x, var), self._shader[var].
PropertyGet(name) ==
    LET i == arg[Caller]
        got == GetOutcome(i, ByVar(LoopVar(i)))
    IN  /\ pc[Caller] = "generated"
        /\ name \in DeclaredNames(i)
        /\ last' = Access("property_get", i, got.res, name, got.value)
        /\ NoImages
        /\ UNCHANGED <<classvars, threadvars, instvars>>

\* obj.<name> = value, the setter of line 45: _set(x, var, v),
\* self._shader[var] = value.
PropertySet(name, value) ==
    LET i == arg[Caller]
        set == SetOutcome(i, ByVar(LoopVar(i)), value)
    IN  /\ pc[Caller] = "generated"
        /\ name \in DeclaredNames(i)
        /\ variables' = [variables EXCEPT ![i] = set.table]
        /\ last' = Access("property_set", i, set.res, name, value)
        /\ NoImages
        /\ UNCHANGED <<classvars, threadvars, life, gpu, closes, body>>

\* obj.close(), lines 24 and 41: self._shader.close().
GeneratedClose(o) ==
    /\ pc[Caller] = "generated"
    /\ CloseEffect(arg[Caller], o)
    /\ last' = Access("generated_close", arg[Caller],
                      IF o = "glerror" THEN "GLError" ELSE "ok", "", NoneV)
    /\ NoImages
    /\ UNCHANGED threadvars

----------------------------------------------------------------------------
(* Spec: threads *)

Init ==
    /\ instances = 0
    /\ mutex = NoThread
    /\ window = None
    /\ created = 0
    /\ pc = [t \in Threads |-> "idle"]
    /\ arg = [t \in Threads |-> 1]
    /\ current = [t \in Threads |-> None]
    /\ life = [i \in Insts |-> "Uninitialized"]
    /\ gpu = [i \in Insts |-> {}]
    /\ closes = [i \in Insts |-> 0]
    /\ variables = [i \in Insts |-> <<>>]
    /\ body = [i \in Insts |-> "none"]
    /\ last = Call("none", 1, "ok")
    /\ image = NoImage
    /\ output = NoOutput
    /\ pushed = <<>>
    /\ draw = NoDraw
    /\ source = NoSource

Next ==
    \/ \E t \in Threads, i \in Insts : CtorCall(t, i)
    \/ \E t \in Threads : CtorAcquire(t)
    \/ \E t \in Threads, o \in CtorOutcomes : CtorBody(t, o)
    \/ \E t \in Threads, i \in Insts : CloseCall(t, i)
    \/ \E t \in Threads, o \in {"ok", "glerror"} : CloseDelete(t, o)
    \/ \E t \in Threads : CloseAcquire(t)
    \/ \E t \in Threads : CloseBody(t)
    \/ \E t \in Threads, i \in Insts, img \in ThreadImages : ApplyCall(t, i, img)
    \/ \E t \in Threads : ApplyAcquire(t)
    \/ \E t \in Threads, o \in {"ok", "glerror"} : ApplyGpu(t, o)

Spec == Init /\ [][Next]_vars

----------------------------------------------------------------------------
(* SpecVars: one caller, declared variables *)

Names == {"x", "X", "v", "y"}

DeclChoices ==
    {<<>>,
     <<ShaderVariable("x", "FLOAT", Num(0))>>,
     <<ShaderVariable("x", "INT_2", NoneV), ShaderVariable("X", "FLOAT_3", NoneV)>>,
     <<ShaderVariable("v", "BOOL", NoneV)>>,
     <<ShaderVariable("X", "INT", Num(2))>>,
     <<ShaderVariable("v", "INT_3", NoneV)>>,
     <<ShaderVariable("v", "INT_4", NoneV)>>,
     <<ShaderVariable("X", "FLOAT_2", NoneV)>>,
     <<ShaderVariable("x", "FLOAT_4", NoneV)>>}

\* Instance 1 is the one the caller gets, sets and applies; it is built
\* from any of the declaration lists.  Instance 2 is another instance, built
\* from the constructor's default, no variables, and only built and closed.
VarInsts == {1, 2}

DeclsFor(i) == IF i = 1 THEN DeclChoices ELSE {<<>>}

Args ==
    {ByName(n) : n \in Names}
      \cup {ByVar(ShaderVariable("x", "FLOAT", Num(0))),
            ByVar(ShaderVariable("x", "FLOAT", NoneV))}

HostValues ==
    {NoneV, Num(3), List(<<2>>), List(<<2, 4>>), List(<<2, 4, 6>>),
     List(<<2, 4, 6, 8>>)}

NextVars ==
    \/ \E i \in VarInsts, o \in CtorOutcomes :
          \E d \in DeclsFor(i) : SeqCtor(i, o, d, "")
    \/ \E i \in VarInsts, o \in {"ok", "glerror"} : SeqClose(i, o)
    \/ \E a \in Args : SeqGet(1, a)
    \/ \E a \in Args, value \in HostValues : SeqSet(1, a, value)
    \/ \E img \in ThreadImages, o \in {"ok", "glerror"} :
          \E found \in SUBSET DeclaredNames(1) : SeqApply(1, img, o, found)

SpecVars == Init /\ [][NextVars]_vars

----------------------------------------------------------------------------
(* SpecFrame: one caller, one instance with declared variables *)

\* The caller builds instance 1, sets its variables, applies it and closes
\* it; no other instance exists.
NextFrame ==
    \/ \E o \in CtorOutcomes, d \in DeclChoices : SeqCtor(1, o, d, "")
    \/ \E a \in Args, value \in HostValues : SeqSet(1, a, value)
    \/ \E img \in ThreadImages, o \in {"ok", "glerror"} :
          \E found \in SUBSET DeclaredNames(1) : SeqApply(1, img, o, found)
    \/ \E o \in {"ok", "glerror"} : SeqClose(1, o)

SpecFrame == Init /\ [][NextFrame]_vars

----------------------------------------------------------------------------
(* SpecScope: one caller using instances inside with statements *)

\* The caller builds instances and uses each inside a with statement, whose
\* block gets and sets variables and applies the shader until it ends or a
\* call raises.
NextScope ==
    \/ \E i \in Insts, o \in CtorOutcomes :
          \E d \in DeclsFor(i) : pc[Caller] = "idle" /\ SeqCtor(i, o, d, "")
    \/ \E i \in Insts : WithEnter(i)
    \/ \E a \in Args : InBlock /\ SeqGet(arg[Caller], a)
    \/ \E a \in Args, value \in HostValues : InBlock /\ SeqSet(arg[Caller], a, value)
    \/ \E img \in ThreadImages, o \in {"ok", "glerror"} :
          \E found \in SUBSET DeclaredNames(arg[Caller]) :
              InBlock /\ SeqApply(arg[Caller], img, o, found)
    \/ \E o \in {"ok", "glerror"} : WithExit(o)

SpecScope == Init /\ [][NextScope]_vars

----------------------------------------------------------------------------
(* SpecImage: one caller, one shader, every image of the bounded set *)

Dims == 0..MaxDim
GrayVals == {10, 300}
Palette == {<<1, 2, 3>>, <<9, 8, 255>>}

GrayImages ==
    UNION {{Image(<<h, w>>, d) : d \in [1..(h * w) -> GrayVals]} :
           h \in 1..MaxDim, w \in 1..MaxDim}

OneChannelImages ==
    UNION {{Image(<<h, w, 1>>, d) : d \in [1..(h * w) -> GrayVals]} :
           h \in 1..MaxDim, w \in 1..MaxDim}

\* Three-channel images of 8-bit elements, and one of elements beyond.
ColorImages ==
    UNION {{Image(<<h, w, 3>>, Flatten3(px)) : px \in [1..(h * w) -> Palette]} :
           h \in 1..MaxDim, w \in 1..MaxDim}
      \cup {Image(<<1, 1, 3>>, <<300, 0, 255>>)}

\* Shapes apply() has to refuse, and shapes without elements.
OddShapes ==
    {<<n>> : n \in Dims}
      \cup {<<h, w>> : h \in Dims, w \in {0}}
      \cup {<<h, w>> : h \in {0}, w \in Dims}
      \cup {sh \in {<<h, w, c>> : h \in Dims, w \in Dims, c \in 0..4} :
              sh[1] * sh[2] = 0 \/ sh[3] \notin {1, 3}}
      \cup {<<h, w, 1, 1>> : h \in Dims, w \in Dims}

OddImages == {Image(sh, [k \in 1..Prod(sh) |-> 0]) : sh \in OddShapes}

Images == GrayImages \cup OneChannelImages \cup ColorImages \cup OddImages

\* The caller builds a shader and applies it to one image.
NextImage ==
    \/ \E code \in Bodies : SeqCtor(1, "ok", <<>>, code)
    \/ last.op = "init" /\ \E img \in Images : SeqApply(1, img, "ok", {})

SpecImage == Init /\ [][NextImage]_vars

----------------------------------------------------------------------------
(* Properties of the reference count and the lock, under Spec *)

Built == {i \in Insts : life[i] \in {"Ready", "Closed"}}

CloseInProgress(i) ==
    \E t \in Threads : pc[t] \in {"close_gpu", "close_wait", "close_cs"} /\ arg[t] = i

CloseDone == {i \in Built : life[i] = "Closed" /\ ~CloseInProgress(i)}

AllBuiltClosedOnce == \A i \in Insts : life[i] # "Failed" /\ closes[i] <= 1

Quiescent == \A t \in Threads : pc[t] \notin {"init_cs", "close_cs"}

\* C1: as long as every construction has succeeded and no instance has been
\* closed twice, the reference count is the number of instances built and
\* not yet closed, the window exists exactly while that number is at least
\* one (so after N constructions and N-1 closes it exists, and after the
\* last close it is None), and a window that exists is the one made by the
\* latest creation.
C1_ReferenceCounting ==
    AllBuiltClosedOnce =>
        LET live == Cardinality(Built) - Cardinality(CloseDone)
        IN  /\ instances = live
            /\ (window # None) <=> (live >= 1)
            /\ window # None => window = created

\* Instance 1 was built and closed, which tore the first window down; the
\* construction of instance 2 after that made a second window.
C1_Witness ==
    /\ AllBuiltClosedOnce
    /\ \A t \in Threads : pc[t] = "idle"
    /\ life[1] = "Closed" /\ life[2] = "Ready"
    /\ instances = 1 /\ created = 2 /\ window = 2

\* C2: whenever no constructor and no close() is inside its locked
\* section, the window exists if and only if the reference count is at
\* least 1.
C2_SurfaceIffCount ==
    Quiescent => ((window # None) <=> (instances >= 1))

\* C4: a second close() of an instance does not decrement the reference
\* count again: the count never drops below 0 and the window is never
\* destroyed while an instance is Ready.
C4_CloseGuarded ==
    /\ instances >= 0
    /\ \A i \in Insts : life[i] = "Ready" => window # None

\* C5: at most one thread is inside the locked section of a constructor, of
\* apply() or of close(), and that thread holds the one class-wide lock.
C5_MutualExclusion ==
    /\ Cardinality({t \in Threads : pc[t] \in LockedPcs}) <= 1
    /\ \A t \in Threads : pc[t] \in LockedPcs => mutex = t

\* One thread renders inside apply() while another waits for the lock.
C5_Witness ==
    \E t1 \in Threads, t2 \in Threads :
        /\ pc[t1] = "apply_cs"
        /\ pc[t2] \in {"init_wait", "close_wait", "apply_wait"}

\* C6: while a thread is inside the locked GPU section of apply() or of a
\* constructor, no other thread executes GPU calls, the deletions of
\* close() included.
C6_NoConcurrentGpuCalls ==
    \A t1 \in Threads, t2 \in Threads :
        (t1 # t2 /\ pc[t1] \in {"apply_cs", "init_cs"})
            => pc[t2] \notin {"close_gpu", "apply_cs", "init_cs"}

\* C20: every step of a constructor, of apply() or of close() that issues
\* GPU calls runs with the shared context current on its thread: the
\* constructor and apply() leave their locked section with the context of
\* the window current, and the deletions of close() are made by a thread
\* on which the context of the window is current.
C20_ContextCurrent ==
    [][\A t \in Threads :
          /\ (pc[t] \in {"init_cs", "apply_cs"} /\ pc'[t] = "idle")
                => current'[t] = window'
          /\ (pc[t] = "close_gpu" /\ pc'[t] # "close_gpu")
                => HasContext(t)]_vars

----------------------------------------------------------------------------
(* Properties of get_variable, set_variable and apply, under SpecVars *)

\* C3: a call of apply(), get_variable() or set_variable() on an instance
\* that has been closed fails with the use-after-close error.
C3_UseAfterClose ==
    (last.op \in {"apply", "get", "set"} /\ life[last.inst] = "Closed")
        => last.res = "UseAfterClose"

DeclaredType(i, a) == variables[i][Lookup(i, a)].key.type

\* A scalar for a vector type, a list for a scalar type, or a list of a
\* length other than the type's number of components.
ComponentMismatch(type, value) ==
    \/ value.k = "num" /\ Arity(type) > 1
    \/ value.k = "list" /\ Len(value.es) # Arity(type)
    \/ value.k = "list" /\ Arity(type) = 1

\* C7: set_variable with a value whose number of components differs from
\* the arity of the variable's declared type fails with a type error and
\* leaves the binding table unchanged.
C7_ArityMismatchRejected ==
    [][\A a \in Args, value \in HostValues :
          (/\ SeqSet(1, a, value)
           /\ Lookup(1, a) # 0
           /\ ComponentMismatch(DeclaredType(1, a), value))
              => (last'.res = "TypeError" /\ variables' = variables)]_vars

\* C8: on every instance a caller holds, whatever it declares, a call of
\* get_variable or set_variable with a name that is not exactly the name
\* of a declared variable fails with the unknown-variable error, and the
\* binding table set_variable leaves is the one it found.
C8_UnknownName ==
    life[1] \in {"Ready", "Closed"} =>
        \A a \in Args :
            (a.kind = "str" /\ a.s \notin DeclaredNames(1)) =>
                /\ GetOutcome(1, a).res = "UnknownVariable"
                /\ \A value \in HostValues :
                      /\ SetOutcome(1, a, value).res = "UnknownVariable"
                      /\ SetOutcome(1, a, value).table = variables[1]

\* set_variable has just failed for an unknown name on an instance that
\* declares "x" and "X".
C8_Witness ==
    /\ last.op = "set" /\ last.inst = 1 /\ last.res = "UnknownVariable"
    /\ DeclaredNames(1) = {"x", "X"}

Failed(res) == res \notin {"ok", "ok_undefined"}

ValidImages == {img \in ThreadImages : Prepare(img).res = "ok"}

\* C12: when get_variable, set_variable or apply fails on a Ready instance,
\* the instance stays Ready, its bindings, the reference count and the lock
\* are as before the call, and an apply() of a valid image made next
\* succeeds, whatever locations the program has.
C12_FailureLeavesUsable ==
    [][\A i \in VarInsts :
          (/\ last'.op \in {"get", "set", "apply"}
           /\ last'.inst = i
           /\ last' # last
           /\ Failed(last'.res)
           /\ life[i] = "Ready")
              => /\ life'[i] = "Ready"
                 /\ variables' = variables
                 /\ instances' = instances
                 /\ mutex' = mutex
                 /\ \A img \in ValidImages :
                       (\A found \in SUBSET DeclaredNames(i) :
                           ~Failed(ApplyOutcome(i, img, "ok", found).res))']_vars

\* C13: apply() writes neither into the array it is given nor into the
\* bindings: when it has returned or raised, the caller's array holds the
\* values it held and get_variable returns for every name or declaration
\* what it returned before the call.
C13_ApplyFrame ==
    [][\A img \in ThreadImages :
          (/\ last'.op = "apply"
           /\ \E o \in {"ok", "glerror"}, found \in SUBSET DeclaredNames(1) :
                  SeqApply(1, img, o, found))
              => /\ image' = img
                 /\ variables' = variables
                 /\ \A a \in Args : GetOutcome(1, a)' = GetOutcome(1, a)]_vars

\* apply() has converted an array of elements beyond 8 bits and has pushed
\* a bound variable.
C13_Witness ==
    /\ last.op = "apply" /\ output.res = "ok"
    /\ image = Image(<<1, 1>>, <<300>>)
    /\ \E j \in 1..Len(pushed) : pushed[j].call # "none"


ExpectedSetter(type) ==
    CASE type \in {"BOOL", "INT"} -> "glUniform1i"
      [] type = "INT_2" -> "glUniform2i"
      [] type = "INT_3" -> "glUniform3i"
      [] type = "INT_4" -> "glUniform4i"
      [] type = "FLOAT" -> "glUniform1f"
      [] type = "FLOAT_2" -> "glUniform2f"
      [] type = "FLOAT_3" -> "glUniform3f"
      [] type = "FLOAT_4" -> "glUniform4f"

\* C15: in the uniform loop of apply(), every variable with a bound value
\* whose location is found is pushed with the setter of its declared type,
\* for each of the nine types; a variable whose value is None or whose
\* location is not found is skipped without a call and without an error.
C15_TypedPush ==
    \A j \in 1..Len(pushed) :
        IF pushed[j].located
          THEN pushed[j].call = ExpectedSetter(pushed[j].type)
          ELSE pushed[j].call = "none" /\ ~pushed[j].raised

----------------------------------------------------------------------------
(* Properties of the constructor's failures, under SpecFrame *)

\* C18: a construction whose fragment stage does not compile fails with the
\* error carrying the compiler log and leaves no fragment shader object; a
\* construction whose program does not link fails with an error carrying
\* the linker log and leaves no program object; in both cases the instance
\* is not built and the lock is free.
C18_FailedBuildCleansUp ==
    last.op = "init" =>
        /\ last.res = "compile_fail" =>
              /\ output.res = "CompileError"
              /\ "fragment_shader" \notin gpu[last.inst]
              /\ life[last.inst] = "Failed"
        /\ last.res \in {"link_fail", "link_raise"} =>
              /\ output.res \in {"LinkError", "RuntimeError"}
              /\ "program" \notin gpu[last.inst]
              /\ life[last.inst] = "Failed"
        /\ mutex = NoThread

\* C19: a construction whose window creation yields no window fails with
\* the context error, and the instance is not built.
C19_ContextError ==
    (last.op = "init" /\ last.res = "surface_fail")
        => (output.res = "ContextError" /\ life[last.inst] = "Failed")

----------------------------------------------------------------------------
(* Properties of the with statement, under SpecScope *)

\* C14: a with statement on a constructed instance calls close() on that
\* instance exactly once when its block is left, whether the block ends
\* normally or a call inside it raises, and never while the block runs.
C14_ScopedClose ==
    [][\A i \in Insts :
          /\ (pc[Caller] = "with_block" /\ arg[Caller] = i /\ pc'[Caller] = "idle")
                => closes'[i] = closes[i] + 1
          /\ (pc[Caller] = "with_block" /\ pc'[Caller] = "with_block")
                => closes' = closes]_vars

\* The block of a with statement was left by a call that raised, and the
\* instance has been closed once.
C14_Witness ==
    /\ pc[Caller] = "idle"
    /\ last = Call("exit", 1, "UnknownVariable")
    /\ closes[1] = 1 /\ life[1] = "Closed"

----------------------------------------------------------------------------
(* Properties of the image pipeline, under SpecImage *)

IsGray2D(img) == Len(img.shape) = 2 /\ Prod(img.shape) > 0

\* The (H, W, 1) array of the same elements.
AsOneChannel(img) == Image(<<img.shape[1], img.shape[2], 1>>, img.data)

\* The (H, W, 3) array holding each element three times.
AsBroadcast(img) ==
    Image(<<img.shape[1], img.shape[2], 3>>,
          [k \in 1..(3 * Len(img.data)) |-> img.data[((k - 1) \div 3) + 1]])

\* C9: apply() on a 2-D grayscale image succeeds with an output of shape
\* (H, W, 3), and on the (H, W, 1) and the channel-broadcast (H, W, 3)
\* equivalents it uploads the same texels and returns the same output.
C9_GrayEquivalent ==
    (last.op = "apply" /\ IsGray2D(image)) =>
        /\ output.res = "ok"
        /\ output.shape = <<image.shape[1], image.shape[2], 3>>
        /\ \A e \in {AsOneChannel(image), AsBroadcast(image)} :
              /\ Prepare(e) = Prepare(image)
              /\ ApplyOutcome(last.inst, e, "ok", {}) = output

\* A 2 x 2 grayscale image of differing pixels went through a body that
\* treats the channels differently.
C9_Witness ==
    /\ last.op = "apply" /\ output.res = "ok"
    /\ image = Image(<<2, 2>>, <<10, 300, 300, 10>>)
    /\ body[1] = "out_color.gb = vec2(0);"

IsValidShape(img) ==
    /\ Prod(img.shape) > 0
    /\ \/ Len(img.shape) = 2
       \/ Len(img.shape) = 3 /\ img.shape[3] \in {1, 3}

\* C11: apply() on a 3-D image with elements whose channel count is
\* neither 1 nor 3 fails with the unsupported-channel-count error, raised
\* by the validation before the lock and any GPU call; every image with
\* elements that is 2-D, or 3-D with 1 or 3 channels, passes the validation
\* and is rendered.
C11_ChannelCount ==
    last.op = "apply" =>
        /\ (Prod(image.shape) > 0 /\ Len(image.shape) = 3
                /\ image.shape[3] \notin {1, 3})
              => (output.res = "UnsupportedChannelCount" /\ output.stage = "validate")
        /\ IsValidShape(image) => (Prepare(image).res = "ok" /\ output.res = "ok")

\* apply() has just refused a 2 x 2 image of four channels.
C11_Witness ==
    /\ last.op = "apply" /\ image.shape = <<2, 2, 4>>
    /\ output.res = "UnsupportedChannelCount"

IsOnePixel(img) == IsValidShape(img) /\ img.shape[1] = 1 /\ img.shape[2] = 1

RedBody == "out_color = vec4(1,0,0,1);"

\* C16 as stated: for a 1 x 1 input and the body out_color = vec4(1,0,0,1),
\* the array apply() returns holds (255, 0, 0) for its pixel.
C16_RedPixelAsStated ==
    (last.op = "apply" /\ IsOnePixel(image) /\ body[last.inst] = RedBody)
        => (output.res = "ok" /\ output.data = <<255, 0, 0>>)

\* C16, amended: for a 1 x 1 input and the body out_color = vec4(1,0,0,1),
\* the array apply() returns has shape (1, 1, 3) and holds (0, 0, 255): the
\* readback conversion puts the red channel last, the order of the
\* caller's arrays.
C16_RedPixelBGR ==
    (last.op = "apply" /\ IsOnePixel(image) /\ body[last.inst] = RedBody)
        => /\ output.res = "ok"
           /\ output.shape = <<1, 1, 3>>
           /\ output.data = <<0, 0, 255>>

\* The red body has been applied to a 1 x 1 image of three channels.
C16_Witness ==
    /\ last.op = "apply" /\ output.res = "ok"
    /\ image = Image(<<1, 1, 3>>, <<1, 2, 3>>)
    /\ body[1] = RedBody

IsColor8(img) ==
    /\ IsValidShape(img)
    /\ Len(img.shape) = 3 /\ img.shape[3] = 3
    /\ \A k \in 1..Len(img.data) : img.data[k] \in 0..255

\* C17: for a valid image of three 8-bit channels and the empty body, which
\* leaves out_color as sampled, apply() returns an array of the shape and
\* the elements of its input: the conversion on upload and the one on
\* readback undo each other and every pixel keeps its row and column.
C17_IdentityRoundTrip ==
    (last.op = "apply" /\ IsColor8(image) /\ body[last.inst] = "")
        => /\ output.res = "ok"
           /\ output.shape = image.shape
           /\ output.data = image.data
           /\ \A q \in 1..(image.shape[1] * image.shape[2]) :
                 SwapChannels(Prepare(image).px[q])
                    = Pixels3(image.data, Len(image.data) \div 3)[q]

\* The empty body has been applied to a 2 x 2 image whose rows differ and
\* whose channels differ.
C17_Witness ==
    /\ last.op = "apply" /\ output.res = "ok"
    /\ body[1] = ""
    /\ image = Image(<<2, 2, 3>>, <<1, 2, 3, 9, 8, 255, 9, 8, 255, 9, 8, 255>>)

\* C10: apply() on an array without elements fails with the empty-image
\* error, raised by the validation, before the lock and any GPU call.
C10_EmptyImageError ==
    (last.op = "apply" /\ Prod(image.shape) = 0)
        => (output.res = "EmptyImage" /\ output.stage = "validate")

----------------------------------------------------------------------------
(* Teardown, failed constructions and the liveness check of apply() *)

\* A step in which close() destroys the window.
Teardown ==
    /\ \E t \in Threads : pc[t] = "close_cs" /\ pc'[t] = "idle"
    /\ window # None /\ window' = None

\* C21: close() deletes the instance's objects before it gives up the
\* window, and so the window is never destroyed while an instance still
\* holds objects that were not deleted, under every interleaving of
\* constructions and close() calls.
C21_TeardownAfterRelease ==
    [][Teardown => \A i \in Insts : gpu[i] = {}]_vars

Ready == {i \in Insts : life[i] = "Ready"}

NoCtorOrClose == \A t \in Threads : pc[t] \in {"idle", "apply_wait", "apply_cs"}

\* C22: whenever no constructor and no close() is in progress, the
\* reference count is the number of Ready instances, whatever constructions
\* have succeeded or failed and whatever instances have been closed.
C22_CountIsReady ==
    NoCtorOrClose => instances = Cardinality(Ready)

\* A step in which a constructor call ends with a compile or a link error.
FailedBuild ==
    /\ last'.op = "init"
    /\ last'.res \in {"compile_fail", "link_fail", "link_raise"}
    /\ life[last'.inst] = "Uninitialized"
    /\ life'[last'.inst] = "Failed"

\* C23: a construction that fails with a compile or a link error leaves
\* the reference count and the existence of the window as they were before
\* it began.
C23_FailedBuildRollsBack ==
    [][FailedBuild => /\ instances' = instances
                      /\ (window' = None) <=> (window = None)]_vars

\* C24: under every interleaving of apply() on one thread with close() on
\* another, the locked section of apply() never runs after the window has
\* been destroyed.
C24_ApplyNeverAfterTeardown ==
    \A t \in Threads : pc[t] = "apply_cs" => window # None

----------------------------------------------------------------------------
(* SpecFair: the threads of Spec under a fair lock *)

\* The steps thread t takes without waiting for anything: the deletions of
\* close() and the three locked sections, each ending in its finally clause.
Running(t) ==
    \/ \E o \in CtorOutcomes : CtorBody(t, o)
    \/ \E o \in {"ok", "glerror"} : CloseDelete(t, o)
    \/ CloseBody(t)
    \/ \E o \in {"ok", "glerror"} : ApplyGpu(t, o)

\* The acquisitions of thread t, lines 122, 212 and 278.
Acquiring(t) == CtorAcquire(t) \/ CloseAcquire(t) \/ ApplyAcquire(t)

\* A thread inside a method goes on running, and the lock is fair: a thread
\* waiting for a lock that is free again and again gets it.  Nothing makes
\* a thread call a method.
Fairness ==
    \A t \in Threads : WF_vars(Running(t)) /\ SF_vars(Acquiring(t))

\* The instances the threads build, apply and close.
FairInsts == {1, 2}

NextFair ==
    \/ \E t \in Threads, i \in FairInsts : CtorCall(t, i)
    \/ \E t \in Threads, i \in FairInsts : CloseCall(t, i)
    \/ \E t \in Threads, i \in FairInsts, img \in ThreadImages : ApplyCall(t, i, img)
    \/ \E t \in Threads : Running(t)
    \/ \E t \in Threads : Acquiring(t)

SpecFair == Init /\ [][NextFair]_vars /\ Fairness

WaitPcs == {"init_wait", "close_wait", "apply_wait"}

\* C25: a thread holds the lock exactly while it is inside the locked
\* section of a constructor, of apply() or of close(), so every exit of a
\* section has released it and no thread waits for a lock it holds; and
\* under a fair lock every thread waiting for the lock gets it and every
\* apply() that went for the lock returns to its caller.
C25_LockReleasedAndProgress ==
    /\ [](\A t \in Threads : (mutex = t) <=> (pc[t] \in LockedPcs))
    /\ \A t \in Threads : (pc[t] \in WaitPcs) ~> (pc[t] \in LockedPcs)
    /\ \A t \in Threads : (pc[t] \in {"apply_wait", "apply_cs"}) ~> (pc[t] = "idle")

\* A thread waits inside apply() for the lock a constructor on the other
\* thread holds.
C25_Witness ==
    \E t1 \in Threads, t2 \in Threads :
        pc[t1] = "apply_wait" /\ pc[t2] = "init_cs" /\ mutex = t2

----------------------------------------------------------------------------
(* SpecChecks: one caller, one instance, the checks of apply() *)

\* The shapes apply() refuses, with and without elements, and one image it
\* accepts.
CheckImages == OddImages \cup {Image(<<1, 1, 3>>, <<1, 2, 3>>)}

\* The caller builds instance 1, applies it to images and closes it, and
\* applies it again after the close.
NextChecks ==
    \/ SeqCtor(1, "ok", <<>>, "")
    \/ \E img \in CheckImages : SeqApply(1, img, "ok", {})
    \/ SeqClose(1, "ok")

SpecChecks == Init /\ [][NextChecks]_vars

\* The error of the first check, in the order use after close, empty image,
\* dimensionality, channel count, that the call apply(img) fails; "none"
\* when it passes all four.  The empty-image check is the one apply() makes,
\* on the length of the first dimension.
FirstFailingCheck(closed, img) ==
    IF closed THEN "UseAfterClose"
    ELSE IF img.shape[1] = 0 THEN "EmptyImage"
    ELSE IF Len(img.shape) \notin {2, 3} THEN "InvalidDimensionality"
    ELSE IF Len(img.shape) = 3 /\ img.shape[3] \notin {1, 3}
      THEN "UnsupportedChannelCount"
    ELSE "none"

CheckErrors ==
    {"UseAfterClose", "EmptyImage", "InvalidDimensionality", "UnsupportedChannelCount"}

----------------------------------------------------------------------------
(* Properties of the assembled source and the variable table *)

\* C27: a ShaderVariable passed to get_variable or set_variable stands for
\* the declared variable of its name: the lookup finds that variable also
\* when the type or the default value of the object passed differ from the
\* declared ones.
C27_IdentityIsName ==
    \A a \in Args :
        (life[1] = "Ready" /\ a.kind = "var" /\ a.v.name \in DeclaredNames(1))
            => /\ Lookup(1, a) # 0
               /\ variables[1][Lookup(1, a)].key.name = a.v.name
               /\ GetOutcome(1, a).res = "ok"
               /\ \A value \in HostValues :
                     SetOutcome(1, a, value).res # "UnknownVariable"

----------------------------------------------------------------------------
(* SpecSizes: one caller, one shader, applied to images of differing sizes *)

FillVals == {0, 200, 300}

\* Images apply() accepts, of every height and width up to MaxDim, of one
\* value throughout.
SizeImages ==
    UNION {{Image(<<h, w>>, [k \in 1..(h * w) |-> v]),
            Image(<<h, w, 1>>, [k \in 1..(h * w) |-> v]),
            Image(<<h, w, 3>>, [k \in 1..(h * w * 3) |-> v])} :
           h \in 1..MaxDim, w \in 1..MaxDim, v \in FillVals}

\* The caller builds a shader and applies it to one image after another.
NextSizes ==
    \/ \E code \in Bodies : SeqCtor(1, "ok", <<>>, code)
    \/ \E img \in SizeImages : SeqApply(1, img, "ok", {})

SpecSizes == Init /\ [][NextSizes]_vars

\* C28: after every apply(image) that returns, the output texture has the
\* width and the height of the image, the uniforms width and height pushed
\* for the draw are the image's numbers of columns and of rows, and the
\* array returned is an array of 8-bit elements of shape H x W x 3, whatever
\* the sizes of the images applied before.
C28_SizedToImage ==
    (last.op = "apply" /\ output.res = "ok") =>
        LET h == image.shape[1]
            w == image.shape[2]
        IN  /\ draw.target = <<w, h>>
            /\ draw.viewport = <<w, h>>
            /\ draw.width = w /\ draw.height = h
            /\ output.shape = <<h, w, 3>>
            /\ Len(output.data) = h * w * 3
            /\ \A k \in 1..Len(output.data) : output.data[k] \in 0..255

\* An image of one row and two columns has been applied.
C28_Witness ==
    /\ last.op = "apply" /\ output.res = "ok"
    /\ image.shape = <<1, 2>>
    /\ draw.target = <<2, 1>>

----------------------------------------------------------------------------
(* SpecSource: the sources the constructors assemble *)

\* Bodies of no, one and two lines, and bodies that hold the text of a
\* placeholder.
SourceBodies ==
    {"", "out_color = vec4(1,0,0,1);", TwoStatements, VAR_ADD_FUNCTIONS,
     VAR_UNIFORMS}

\* additional_functions: none, one function, the text of a placeholder.
SourceFunctions == {"", "float sq(float v) { return v * v; }", VAR_UNIFORMS}

\* Declaration lists of no, one and two variables.
SourceDecls ==
    {<<>>,
     <<ShaderVariable("x", "FLOAT", Num(0))>>,
     <<ShaderVariable("x", "INT_2", NoneV), ShaderVariable("X", "FLOAT_3", NoneV)>>}

\* The caller builds one shader of the package, with or without a window,
\* and shaders of the module CVGLPixelShader.py.
NextSource ==
    \/ \E o \in {"ok", "surface_fail"}, d \in SourceDecls :
          \E code \in SourceBodies, f \in SourceFunctions : Construct(1, o, d, code, f)
    \/ \E d \in SourceDecls, code \in SourceBodies, f \in SourceFunctions :
          LegacyConstruct(d, code, f)

SpecSource == Init /\ [][NextSource]_vars

\* The declarations of the source text t, those of width and height aside.
DeclarationLines(t) ==
    LET IsDeclaration(l) == l.text = "uniform" /\ l.name \notin {"width", "height"}
    IN  SelectSeq(t, IsDeclaration)

\* C29: the source a constructor of the package assembles declares one
\* uniform per declared variable and no other, in the order of declaration,
\* the variable at index i (from 0) at location i + 3; so the locations of
\* the declarations differ from one another and from 1 and 2, those of
\* width and height.
C29_OneUniformPerVariable ==
    source.module = "CVGL.pixel_shader" =>
        LET u == DeclarationLines(source.text)
        IN  /\ Len(u) = Len(source.decls)
            /\ \A j \in 1..Len(u) :
                  /\ u[j].name = source.decls[j].name
                  /\ u[j].glsl = GlslType(source.decls[j].type)
                  /\ u[j].num = (j - 1) + 3
            /\ \A j, k \in 1..Len(u) : j # k => u[j].num # u[k].num
            /\ \A j \in 1..Len(u) : u[j].num \notin {1, 2}

\* The lines the body stands for in the source: the package numbers them.
BodyLines ==
    IF source.module = "CVGL.pixel_shader"
      THEN Numbered(Lines(source.code))
      ELSE Lines(source.code)

\* C30: in every source assembled, the helper functions stand before the
\* entry point, the body stands inside the entry point right after the
\* assignment of the sampled colour to out_color, and the clamp of
\* out_color follows the body as the last statement of the entry point.
C30_BodyBetweenSampleAndClamp ==
    source.module # "none" =>
        LET t == source.text
            n == Len(t)
            b == BodyLines
            f == Lines(source.functions)
        IN  \E m \in 1..n :
                /\ t[m] = MainLine
                /\ \A k \in 1..Len(f) : \E j \in 1..(m - 1) : t[j] = f[k]
                /\ \E s \in (m + 1)..n :
                      /\ t[s] = SampleLine
                      /\ s + Len(b) + 2 = n
                      /\ SubSeq(t, s + 1, s + Len(b)) = b
                      /\ t[n - 1] = ClampLine
                      /\ t[n] = Text("}")

\* The directives of the source text t.
DirectiveLines(t) ==
    LET IsDirective(l) == l.text = "#line"
    IN  SelectSeq(t, IsDirective)

\* C31: in the source a constructor of the package assembles, every line
\* of the body has one #line directive right in front of it, which carries
\* the number of the line in the body, counted from 0 and rising by one
\* from line to line; the lines of the body stand in their order, none
\* left out and none altered, and the source has no other directive.
C31_EveryBodyLineNumbered ==
    source.module = "CVGL.pixel_shader" =>
        LET t == source.text
            b == Lines(source.code)
        IN  /\ Len(DirectiveLines(t)) = Len(b)
            /\ \E s \in 1..Len(t) :
                  /\ t[s] = SampleLine
                  /\ s + 2 * Len(b) + 1 <= Len(t)
                  /\ \A k \in 1..Len(b) :
                        /\ t[s + 2 * k - 1] = LineDirective(k - 1)
                        /\ t[s + 2 * k] = b[k]
                  /\ t[s + 2 * Len(b) + 1] = ClampLine

----------------------------------------------------------------------------
(* Properties of the variable table, under SpecFrame *)

\* C32: right after a construction that succeeded, get_variable(name)
\* returns the declared default of every declared variable, None for one
\* declared without a default; and apply() pushes no variable whose value
\* is None.
C32_DefaultsAndUnset ==
    /\ (last.op = "init" /\ last.res = "ok") =>
          \A j \in 1..Len(variables[1]) :
              LET key == variables[1][j].key
              IN  GetOutcome(1, ByName(key.name))
                      = [res |-> "ok", value |-> key.default_value]
    /\ last.op = "apply" =>
          \A j \in 1..Len(pushed) :
              variables[1][j].value = NoneV
                  => /\ ~pushed[j].bound
                     /\ pushed[j].call = "none"
                     /\ ~pushed[j].raised

\* apply() has gone through two variables declared without a default, the
\* first still unset and passed over, the second set and pushed.
C32_Witness ==
    /\ last.op = "apply" /\ output.res = "ok"
    /\ Len(pushed) = 2
    /\ variables[1][1].value = NoneV /\ ~pushed[1].bound
    /\ pushed[2].bound /\ pushed[2].call = "glUniform3f"

----------------------------------------------------------------------------
(* SpecTable: one caller, one shader, its variables got, set and applied *)

\* The caller builds instance 1 from any of the declaration lists and then
\* gets and sets its variables and applies it, in any order.
NextTable ==
    \/ \E d \in DeclChoices : SeqCtor(1, "ok", d, "")
    \/ \E a \in Args : SeqGet(1, a)
    \/ \E a \in Args, value \in HostValues : SeqSet(1, a, value)
    \/ \E img \in ThreadImages : \E found \in SUBSET DeclaredNames(1) :
          SeqApply(1, img, "ok", found)

SpecTable == Init /\ [][NextTable]_vars

\* The declarations self._variables is keyed by, in order.
Keys(table) == [j \in 1..Len(table) |-> table[j].key]

\* One number of a host value as the 32-bit number of the declared type:
\* an integer type cuts the fraction off, a floating type keeps the number.
As32Bit(type, e) ==
    IF type \in IntScalarTypes \cup IntVectorTypes
      THEN <<"i32", TruncHalves(e[2])>>
      ELSE <<"f32", e[2]>>

\* A set_variable that returned has changed variable j alone, to the value
\* v taken to 32 bits, which get_variable then returns.
SetStored(j, v) ==
    LET key == variables[1][j].key
    IN  /\ variables'[1][j].key = key
        /\ variables'[1][j].value.es
              = [q \in 1..Len(v.es) |-> As32Bit(key.type, v.es[q])]
        /\ \A h \in 1..Len(variables[1]) : h # j => variables'[1][h] = variables[1][h]
        /\ (GetOutcome(1, ByName(key.name))
              = [res |-> "ok", value |-> variables[1][j].value])'

----------------------------------------------------------------------------
(* The objects of a failed construction, under SpecFrame *)

\* C35: after a construction that failed to compile or to link, none of
\* the objects that constructor created is still allocated: its vertex
\* shader, its fragment shader and its program have been deleted.
C35_FailedBuildLeavesNothing ==
    \A i \in Insts :
        (life[i] = "Failed" /\ last = Call("init", i, last.res)
            /\ last.res \in {"compile_fail", "link_fail", "link_raise"})
        => gpu[i] \cap {"vertex_shader", "fragment_shader", "program"} = {}

----------------------------------------------------------------------------
(* SpecHelper: one caller handing a shader to apply_shader *)

\* The caller builds instance 1 and passes it to apply_shader with keyword
\* values and an image.
NextHelper ==
    \/ \E d \in DeclChoices : pc[Caller] = "idle" /\ SeqCtor(1, "ok", d, "")
    \/ ApplyShaderCall(1)
    \/ \E n \in Names, value \in HostValues : ApplyShaderSet(n, value)
    \/ \E img \in ThreadImages, o \in {"ok", "glerror"} :
          \E found \in SUBSET DeclaredNames(arg[Caller]) :
              ApplyShaderApply(img, o, found)
    \/ \E o \in {"ok", "glerror"} : ApplyShaderClose(o)
    \/ ApplyShaderRaise

SpecHelper == Init /\ [][NextHelper]_vars

\* C34: when apply_shader exits, with its result or with an exception of
\* a keyword value or of the image, close() has been called exactly once
\* on the shader it was given, which is Closed.
C34_HelperCloses ==
    last.op = "apply_shader_exit" =>
        /\ closes[last.inst] = 1
        /\ life[last.inst] = "Closed"

----------------------------------------------------------------------------
(* SpecGenerated: one caller using classes of _generate_shader_class *)

\* Shaders/blur.py, lines 4-7: the variables of Blur.
BlurVariables ==
    <<ShaderVariable("quality", "FLOAT", Num(11)),
      ShaderVariable("radius", "FLOAT", Num(20))>>

\* The variable lists of the generated classes: Blur's, one variable, two
\* variables of different types, and a variable declared without default.
GeneratedDecls ==
    {BlurVariables,
     <<ShaderVariable("size", "FLOAT", Num(20))>>,
     <<ShaderVariable("color", "FLOAT_3", List(<<2, 2, 2>>)),
       ShaderVariable("strength", "INT", Num(2))>>,
     <<ShaderVariable("v", "BOOL", NoneV)>>}

GeneratedNames == {"quality", "radius", "size", "color", "strength", "v"}

\* The caller makes two objects at most.
GeneratedInsts == {1, 2}

NextGenerated ==
    \/ \E i \in GeneratedInsts, d \in GeneratedDecls : GeneratedInit(i, d, "")
    \/ \E n \in GeneratedNames : PropertyGet(n)
    \/ \E n \in GeneratedNames, value \in HostValues : PropertySet(n, value)
    \/ \E o \in {"ok", "glerror"} : GeneratedClose(o)

SpecGenerated == Init /\ [][NextGenerated]_vars

\* The index of the binding of the given name.
Named(i, name) ==
    CHOOSE j \in 1..Len(variables[i]) : variables[i][j].key.name = name

\* C36: the attribute named after a declared variable writes the shader
\* variable of that name, which then holds the value as set_variable
\* stores it, and reads the value of the shader variable of that name.
C36_AccessorsByName ==
    /\ (last.op = "property_set" /\ last.res = "ok") =>
          LET b == variables[last.inst][Named(last.inst, last.name)]
          IN  b.value = Coerced(b.key.type, last.value).value
    /\ (last.op = "property_get" /\ last.res = "ok") =>
          last.value = variables[last.inst][Named(last.inst, last.name)].value

====
